---- MODULE Spec2Model ----
(***************************************************************************)
(* Verification model of the Rust bindings: the HPKE layer of bssl-crypto  *)
(* (hpke.rs, Spec and SpecLifecycle), the HMAC bindings of bssl (hmac.rs,  *)
(* SpecHmac), the objects that wrap native handles (hmac.rs and pkey.rs,   *)
(* SpecNative) and the cipher suite provider of mls-rs-crypto-boringssl    *)
(* (lib.rs, SpecAdapter).                                                  *)
(*                                                                         *)
(* The operations are translated from hpke.rs as it stands: Params::new,   *)
(* SenderContext::new, RecipientContext::new, RecipientContext::seal and   *)
(* RecipientContext::open have the body `unimplemented!()`, which panics   *)
(* on every call; SenderContext::seal delegates to RecipientContext::seal; *)
(* SenderContext::encapsulated_key returns the stored bytes.               *)
(*                                                                         *)
(* No constructor of hpke.rs returns, so the operations on Params and on   *)
(* the two contexts are checked on values of the struct types that are     *)
(* given to the client at the start.  What lies behind the `ctx` pointer   *)
(* (the native EVP_HPKE_CTX: key, base nonce, sequence counter) and the    *)
(* AEAD with which a conforming peer seals the messages the recipient is   *)
(* handed follow the design document (sections 3, 4.3, 4.4 and 6).  Byte   *)
(* strings are scaled down: a byte is one symbol of Byte.                  *)
(*                                                                         *)
(* The native library behind bssl_sys is not part of the sources.  Its     *)
(* functions are modelled by what the library documents: a digest is a     *)
(* fold over the bytes, HMAC the two nested digests over the padded key,   *)
(* native objects live on a heap and are destroyed with their last         *)
(* reference, and an allocation may fail.  panic_if_error and the asserts  *)
(* of pkey.rs turn such a failure into a panic, which unwinds.             *)
(***************************************************************************)
EXTENDS Integers, Sequences, FiniteSets, TLC

\* params:    <<the Params the client holds>>
\* sender:    <<the SenderContext the client holds>>
\* recipient: <<the RecipientContext the client holds>>
\* peer:      the recipient private key and info the two contexts were set up for
\* sealed:    whether seal has been called on the sender context
\* last:      the last call: its name, arguments, the receiver's counter before
\*            the call, the result, and how the input was tampered with
VARIABLES params, sender, recipient, peer, sealed, last

\* destroyed: the contexts that have gone out of scope ("sender", "recipient");
\*            `sender` and `recipient` then show what is left in memory of them
VARIABLES destroyed

\* mac:  <<>> or <<the HmacImpl the client holds>>
\* heap:  the native objects allocated so far, by address: what each is, how
\*        often it was freed, and its content while it is allocated
\* fed:   the key the HmacImpl was created with and all data passed to update
\* fault: the misuses of native objects so far (use after free)
VARIABLES mac, heap, fed, fault

\* eckey, pkey, pkeyctx: the EcKey, Pkey and PkeyCtx objects the client holds
\* wrapped: the addresses that a wrapping object has owned
VARIABLES eckey, pkey, pkeyctx, wrapped

\* No native object exists yet.
NativeIdle ==
    /\ mac = <<>>
    /\ heap = <<>>
    /\ fed = [M |-> <<>>, key |-> <<>>, data |-> <<>>]
    /\ fault = {}
    /\ eckey = {}
    /\ pkey = {}
    /\ pkeyctx = {}
    /\ wrapped = {}

natives == <<mac, heap, fed, fault, eckey, pkey, pkeyctx, wrapped>>

\* provider: <<>> or <<the BoringsslCryptoProvider the client holds>>
\* can:      for each component of a cipher suite provider, the suites its
\*           constructor accepts
VARIABLES provider, can

\* The number of cipher suites of CipherSuite::all().
MaxSuite == 3

\* CipherSuite::all().collect()
CipherSuite_all == [i \in 1..MaxSuite |-> i]

\* The parts of a cipher suite provider whose construction can fail.
Components == {"ecdh", "kdf", "kem", "aead", "hash", "ec_signer"}

\* Every component accepts every suite of CipherSuite::all(), except that the
\* components in `missing` do not accept the last one.
Able(missing) ==
    [c \in Components |-> (1..MaxSuite) \ (IF c \in missing THEN {MaxSuite} ELSE {})]

NoProvider ==
    /\ provider = <<>>
    /\ can = Able({})

\* The variables the HPKE calls leave alone.
others == <<destroyed, natives, provider, can>>

vars == <<params, sender, recipient, peer, sealed, last, others>>

(***************************************************************************)
(* Bounds of the model.                                                    *)
(***************************************************************************)
\* Width of an AEAD nonce, in bytes.
NonceLen == 2
\* Length in bytes of an encapsulated key of the KEM.
MAX_ENC_LENGTH == 2

(***************************************************************************)
(* Algorithm identifiers (hpke.rs:17-25).                                  *)
(***************************************************************************)
KEM_X25519_HKDF_SHA256 == 32
KDF_HKDF_SHA256 == 1
AEAD_AES_128_GCM == 1

(***************************************************************************)
(* Byte strings.                                                           *)
(***************************************************************************)
Byte == 0..1
ByteMod == Cardinality(Byte)

RECURSIVE Pow(_, _)
Pow(b, e) == IF e = 0 THEN 1 ELSE b * Pow(b, e - 1)

RECURSIVE XorNat(_, _)
XorNat(a, b) ==
    IF a = 0 THEN b
    ELSE IF b = 0 THEN a
    ELSE ((a + b) % 2) + 2 * XorNat(a \div 2, b \div 2)

\* n as `width` bytes, most significant first, zero-padded on the left.
ToBigEndian(n, width) ==
    [i \in 1..width |-> (n \div Pow(ByteMod, width - i)) % ByteMod]

RECURSIVE FromBigEndian(_)
FromBigEndian(bs) ==
    IF bs = <<>> THEN 0
    ELSE FromBigEndian(SubSeq(bs, 1, Len(bs) - 1)) * ByteMod + bs[Len(bs)]

XorBytes(a, b) == [i \in 1..Len(a) |-> XorNat(a[i], b[i])]

\* bs with the bit `bit` of its i-th byte flipped.
FlipBit(bs, i, bit) == [bs EXCEPT ![i] = XorNat(bs[i], Pow(2, bit))]

RECURSIVE BitsOf(_)
BitsOf(m) == IF m <= 1 THEN 0 ELSE 1 + BitsOf((m + 1) \div 2)

RECURSIVE BytesFor(_)
BytesFor(m) == IF m <= 1 THEN 0 ELSE 1 + BytesFor((m + ByteMod - 1) \div ByteMod)

ByteBits == BitsOf(ByteMod)

(***************************************************************************)
(* The AEAD of a conforming peer (design, section 6): a stream cipher with *)
(* a polynomial authenticator over the associated data and the body.       *)
(***************************************************************************)
TagSpace == 0..6
TagMod == Cardinality(TagSpace)
TagLen == BytesFor(TagMod)

KeyStream(key, nonce, n) ==
    [i \in 1..n |-> (key + FromBigEndian(nonce) + i) % ByteMod]

RECURSIVE Poly(_, _)
Poly(xs, h) ==
    IF xs = <<>> THEN 0
    ELSE ((Poly(SubSeq(xs, 1, Len(xs) - 1), h) + xs[Len(xs)] + 1) * h) % TagMod

AeadTag(key, nonce, aad, body) ==
    LET h == 1 + (key % (TagMod - 1))
        mask == (key * 5 + FromBigEndian(nonce) * 3) % TagMod
    IN  (mask + Poly(aad \o <<ByteMod>> \o body, h)) % TagMod

aead_seal(key, nonce, aad, plaintext) ==
    LET body == XorBytes(plaintext, KeyStream(key, nonce, Len(plaintext)))
    IN  body \o ToBigEndian(AeadTag(key, nonce, aad, body), TagLen)

\* <<TRUE, plaintext>>, or <<FALSE, <<>>>> on an authentication error.
aead_open(key, nonce, aad, ciphertext) ==
    IF Len(ciphertext) < TagLen THEN <<FALSE, <<>>>>
    ELSE LET n == Len(ciphertext) - TagLen
             body == SubSeq(ciphertext, 1, n)
             tag == SubSeq(ciphertext, n + 1, Len(ciphertext))
         IN  IF tag = ToBigEndian(AeadTag(key, nonce, aad, body), TagLen)
             THEN <<TRUE, XorBytes(body, KeyStream(key, nonce, n))>>
             ELSE <<FALSE, <<>>>>

(***************************************************************************)
(* The native context behind `ctx` (design, sections 3 and 4.3).           *)
(***************************************************************************)
\* The AEAD's maximum safe message count for its nonce width.
MaxSeq == Pow(ByteMod, NonceLen)

KeySchedule(key, base_nonce, seq) ==
    [key |-> key, base_nonce |-> base_nonce, seq |-> seq]

\* base_nonce XOR the counter, big-endian, zero-padded to the nonce width.
ComputeNonce(ks) == XorBytes(ks.base_nonce, ToBigEndian(ks.seq, NonceLen))

(***************************************************************************)
(* Results of a call: Ok(value), Err(HpkeError), or a panic.               *)
(* `obj` holds the object a constructor returned.                          *)
(***************************************************************************)
\* pub struct HpkeError;
HpkeError == "HpkeError"

Ok(out) == [ok |-> TRUE, err |-> "none", out |-> out, obj |-> <<>>]

Err(e) == [ok |-> FALSE, err |-> e, out |-> <<>>, obj |-> <<>>]

\* unimplemented!()
unimplemented == [ok |-> FALSE, err |-> "panic: not implemented", out |-> <<>>,
                  obj |-> <<>>]

(***************************************************************************)
(* Params (hpke.rs:34-47).                                                 *)
(***************************************************************************)
Params(kem, kdf, aead) == [kem |-> kem, kdf |-> kdf, aead |-> aead]

Params_new(kem, kdf, aead) == unimplemented

(***************************************************************************)
(* RecipientContext (hpke.rs:49-52, 77-97).                                *)
(***************************************************************************)
RecipientContext(ctx) == [ctx |-> ctx]

RecipientContext_new(p, recipient_priv_key, encapsulated_key, info) == unimplemented

RecipientContext_seal(self, pt, aad) == unimplemented

RecipientContext_open(self, ct, aad) == unimplemented

(***************************************************************************)
(* SenderContext (hpke.rs:54-75).                                          *)
(***************************************************************************)
SenderContext(ctx, encapsulated_key) ==
    [ctx |-> ctx, encapsulated_key |-> encapsulated_key]

SenderContext_new(p, recipient_pub_key, info) == unimplemented

\* self.ctx.seal(pt, aad)
SenderContext_seal(self, pt, aad) == RecipientContext_seal(self.ctx, pt, aad)

\* A slice of the stored bytes that stops one byte short.
SenderContext_encapsulated_key_short(self) ==
    SubSeq(self.encapsulated_key, 1, Len(self.encapsulated_key) - 1)

\* &self.encapsulated_key
SenderContext_encapsulated_key(self) == self.encapsulated_key

\* RecipientContext has no `impl Drop`: its one field is a raw pointer, and
\* dropping the struct leaves what the pointer refers to as it is.
RecipientContext_drop(self) == self

\* SenderContext has no `impl Drop` either: its fields are dropped in turn, and
\* the buffer of the Vec is deallocated, not overwritten.
SenderContext_drop(self) ==
    [ctx |-> RecipientContext_drop(self.ctx), encapsulated_key |-> self.encapsulated_key]

(***************************************************************************)
(* The client: what it holds, its inputs and its calls.                    *)
(***************************************************************************)
SenderSeq == sender[1].ctx.ctx.seq

RecipientSeq == recipient[1].ctx.seq

\* Identifiers handed to Params::new in each position.
AlgorithmIds == {KDF_HKDF_SHA256, KEM_X25519_HKDF_SHA256}

RecipientPrivateKeys == {ToBigEndian(1, MAX_ENC_LENGTH), ToBigEndian(2, MAX_ENC_LENGTH)}

Infos == {<<>>, <<1>>}

\* The (plaintext, associated data) pairs that are sealed.
Messages ==
    {[pt |-> <<1>>, aad |-> <<>>], [pt |-> <<0, 1>>, aad |-> <<1>>]}

EncapsulatedKeys == [1..MAX_ENC_LENGTH -> Byte]

\* Counter values of the contexts handed to the client: fresh, one below the
\* AEAD's limit, and at the limit.
Counters == {0, MaxSeq - 1, MaxSeq}

\* Recipient public keys handed to SenderContext::new: one of the KEM's length
\* and one that is too short.
PublicKeyInputs == {ToBigEndian(1, MAX_ENC_LENGTH), ToBigEndian(1, MAX_ENC_LENGTH - 1)}

\* Encapsulated keys handed to RecipientContext::new: the sender's, the same
\* truncated and extended, and the empty string.
EncInputs ==
    LET base == sender[1].encapsulated_key
    IN  {base, SubSeq(base, 1, Len(base) - 1), base \o <<0>>, <<>>}

Call(op, args, seq, res, tamper) ==
    [op |-> op, args |-> args, seq |-> seq, res |-> res, tamper |-> tamper]

\* The message a conforming peer seals for the recipient at its counter.
Inbound(m) ==
    LET ks == recipient[1].ctx
    IN  [ct |-> aead_seal(ks.key, ComputeNonce(ks), m.aad, m.pt), aad |-> m.aad,
         pt |-> m.pt]

\* Whether the AEAD accepts (ct, aad) at the recipient's counter.
Authentic(ct, aad) ==
    LET ks == recipient[1].ctx
    IN  aead_open(ks.key, ComputeNonce(ks), aad, ct)[1]

Init ==
    \E sk \in RecipientPrivateKeys, info \in Infos, enc \in EncapsulatedKeys,
       sseq \in Counters, rseq \in Counters :
        LET key == FromBigEndian(sk)
            base_nonce == ToBigEndian(FromBigEndian(sk) + Len(info), NonceLen)
        IN  /\ params = <<Params(KEM_X25519_HKDF_SHA256, KDF_HKDF_SHA256,
                                 AEAD_AES_128_GCM)>>
            /\ sender = <<SenderContext(
                            RecipientContext(KeySchedule(key, base_nonce, sseq)), enc)>>
            /\ recipient = <<RecipientContext(KeySchedule(key, base_nonce, rseq))>>
            /\ peer = [sk |-> sk, info |-> info]
            /\ sealed = FALSE
            /\ last = Call("none", <<>>, 0, Ok(<<>>), "none")
            /\ destroyed = {}
            /\ NativeIdle
            /\ NoProvider

CallParamsNew ==
    \E kem \in AlgorithmIds, kdf \in AlgorithmIds, aead \in AlgorithmIds :
        LET r == Params_new(kem, kdf, aead)
        IN  /\ params' = IF r.ok THEN r.obj ELSE params
            /\ last' = Call("Params::new", <<kem, kdf, aead>>, 0, r, "none")
            /\ UNCHANGED <<sender, recipient, peer, sealed, others>>

CallSenderNew ==
    \E pk \in PublicKeyInputs, info \in Infos :
        LET r == SenderContext_new(params[1], pk, info)
        IN  /\ sender' = IF r.ok THEN r.obj ELSE sender
            /\ sealed' = IF r.ok THEN FALSE ELSE sealed
            /\ last' = Call("SenderContext::new", [pk |-> pk, info |-> info], 0, r,
                            "none")
            /\ UNCHANGED <<params, recipient, peer, others>>

CallRecipientNew ==
    \E sk \in RecipientPrivateKeys, enc \in EncInputs, info \in Infos :
        LET r == RecipientContext_new(params[1], sk, enc, info)
        IN  /\ recipient' = IF r.ok THEN r.obj ELSE recipient
            /\ last' = Call("RecipientContext::new",
                            [sk |-> sk, enc |-> enc, info |-> info], 0, r, "none")
            /\ UNCHANGED <<params, sender, peer, sealed, others>>

\* seal takes &self: the SenderContext value is the same after the call.
CallSenderSeal ==
    /\ "sender" \notin destroyed
    /\ \E m \in Messages :
           LET r == SenderContext_seal(sender[1], m.pt, m.aad)
           IN  /\ sealed' = TRUE
               /\ last' = Call("SenderContext::seal", m, SenderSeq, r, "none")
               /\ UNCHANGED <<params, sender, recipient, peer, others>>

\* encapsulated_key takes &self and returns a reference, not a Result.
CallEncapsulatedKey ==
    /\ "sender" \notin destroyed
    /\ LET r == SenderContext_encapsulated_key(sender[1])
       IN  /\ last' = Call("SenderContext::encapsulated_key", <<>>, SenderSeq, Ok(r),
                           "none")
           /\ UNCHANGED <<params, sender, recipient, peer, sealed, others>>

CallRecipientSeal ==
    /\ "recipient" \notin destroyed
    /\ \E m \in Messages :
           LET r == RecipientContext_seal(recipient[1], m.pt, m.aad)
           IN  /\ last' = Call("RecipientContext::seal", m, RecipientSeq, r, "none")
               /\ UNCHANGED <<params, sender, recipient, peer, sealed, others>>

\* The recipient opens the message a conforming peer sealed for it.
CallRecipientOpen ==
    /\ "recipient" \notin destroyed
    /\ \E m \in Messages :
           LET msg == Inbound(m)
               r == RecipientContext_open(recipient[1], msg.ct, msg.aad)
           IN  /\ last' = Call("RecipientContext::open",
                               [ct |-> msg.ct, aad |-> msg.aad, pt |-> m.pt,
                                authentic |-> Authentic(msg.ct, msg.aad)],
                               RecipientSeq, r, "none")
               /\ UNCHANGED <<params, sender, recipient, peer, sealed, others>>

\* The recipient is handed that message with one bit of its ciphertext (body
\* or tag) or of its associated data flipped.
CallRecipientOpenTampered ==
    /\ "recipient" \notin destroyed
    /\ \E m \in Messages :
        LET msg == Inbound(m)
        IN  \/ \E i \in 1..Len(msg.ct), bit \in 0..(ByteBits - 1) :
                LET ct == FlipBit(msg.ct, i, bit)
                    r == RecipientContext_open(recipient[1], ct, msg.aad)
                IN  last' = Call("RecipientContext::open",
                                 [ct |-> ct, aad |-> msg.aad, pt |-> m.pt,
                                  authentic |-> Authentic(ct, msg.aad)],
                                 RecipientSeq, r, "ct")
            \/ \E i \in 1..Len(msg.aad), bit \in 0..(ByteBits - 1) :
                LET aad == FlipBit(msg.aad, i, bit)
                    r == RecipientContext_open(recipient[1], msg.ct, aad)
                IN  last' = Call("RecipientContext::open",
                                 [ct |-> msg.ct, aad |-> aad, pt |-> m.pt,
                                  authentic |-> Authentic(msg.ct, aad)],
                                 RecipientSeq, r, "aad")
    /\ UNCHANGED <<params, sender, recipient, peer, sealed, others>>

Next ==
    \/ CallParamsNew
    \/ CallSenderNew
    \/ CallRecipientNew
    \/ CallSenderSeal
    \/ CallEncapsulatedKey
    \/ CallRecipientSeal
    \/ CallRecipientOpen
    \/ CallRecipientOpenTampered

Spec == Init /\ [][Next]_vars

(***************************************************************************)
(* The end of a context's life: the client lets it go out of scope, after  *)
(* any seal or open calls (each of which ends in a panic).                 *)
(***************************************************************************)
DropSenderContext ==
    /\ "sender" \notin destroyed
    /\ sender' = <<SenderContext_drop(sender[1])>>
    /\ destroyed' = destroyed \cup {"sender"}
    /\ UNCHANGED <<params, recipient, peer, sealed, last, natives, provider, can>>

DropRecipientContext ==
    /\ "recipient" \notin destroyed
    /\ recipient' = <<RecipientContext_drop(recipient[1])>>
    /\ destroyed' = destroyed \cup {"recipient"}
    /\ UNCHANGED <<params, sender, peer, sealed, last, natives, provider, can>>

NextLifecycle ==
    \/ CallSenderSeal
    \/ CallRecipientSeal
    \/ CallRecipientOpen
    \/ DropSenderContext
    \/ DropRecipientContext

SpecLifecycle == Init /\ [][NextLifecycle]_vars

(***************************************************************************)
(* Message digests (digest.rs) and the native HMAC of the library: the     *)
(* hash is a fold over the bytes, HMAC is the two nested hashes over the   *)
(* padded key.                                                             *)
(***************************************************************************)
\* Largest block size of a digest, in bytes.
EVP_MAX_MD_BLOCK_SIZE == 4

\* EVP_sha256() and EVP_sha512(): output size and block size, in bytes.
Sha256 == [md |-> "sha256", size |-> EVP_MAX_MD_BLOCK_SIZE - 2,
           block |-> EVP_MAX_MD_BLOCK_SIZE - 1]

Sha512 == [md |-> "sha512", size |-> EVP_MAX_MD_BLOCK_SIZE - 1,
           block |-> EVP_MAX_MD_BLOCK_SIZE]

\* Number of states of a digest.
HashMod == 61

HashInit(md) == IF md.md = "sha256" THEN 5 ELSE 7

RECURSIVE HashUpdate(_, _)
HashUpdate(st, bytes) ==
    IF bytes = <<>> THEN st
    ELSE HashUpdate((st * 3 + bytes[1] + 1) % HashMod, Tail(bytes))

HashFinal(md, st) ==
    ToBigEndian((st * 7 + md.size) % Pow(ByteMod, md.size), md.size)

Digest(md, bytes) == HashFinal(md, HashUpdate(HashInit(md), bytes))

\* Content of an HMAC_CTX after HMAC_Init_ex(ctx, key, md).
\* The key is hashed when longer than a block and zero-padded to the block
\* size; the inner hash starts from the key with every byte's low bit
\* flipped, the outer hash from the key itself.
HmacInit(md, key) ==
    LET k == IF Len(key) > md.block THEN Digest(md, key) ELSE key
        padded == k \o [i \in 1..(md.block - Len(k)) |-> 0]
    IN  [md |-> md,
         i_ctx |-> HashUpdate(HashInit(md), [i \in 1..Len(padded) |-> XorNat(padded[i], 1)]),
         o_key |-> padded]

HmacUpdate(ctx, data) == [ctx EXCEPT !.i_ctx = HashUpdate(@, data)]

HmacFinal(ctx) == Digest(ctx.md, ctx.o_key \o HashFinal(ctx.md, ctx.i_ctx))

(***************************************************************************)
(* The native heap.  An address is an index into `heap`; NULL is 0.  Each  *)
(* native call yields the heap after it, what it returns, and whether it   *)
(* touched an object that had been freed.                                  *)
(***************************************************************************)
NULL == 0

Freed(h, ptr) == h[ptr].frees > 0

\* The objects an object holds a reference to.
Children(cell) ==
    IF cell.frees > 0 THEN <<>>
    ELSE IF cell.kind = "EVP_PKEY" THEN <<cell.val.ec>>
    ELSE IF cell.kind = "EVP_PKEY_CTX" THEN <<cell.val.pkey, cell.val.peer>>
    ELSE <<>>

\* Allocation of one object; `ok` is whether memory is available.
Allocate(h, kind, val, ok) ==
    IF ok THEN [heap |-> Append(h, [kind |-> kind, refs |-> 1, frees |-> 0, val |-> val]),
                ret |-> Len(h) + 1, uaf |-> FALSE]
    ELSE [heap |-> h, ret |-> NULL, uaf |-> FALSE]

\* Giving up one reference: the object is destroyed with its last reference,
\* and then gives up the references it holds.
RECURSIVE Release(_, _)
RECURSIVE ReleaseAll(_, _)
Release(h, ptr) ==
    IF ptr = NULL THEN [heap |-> h, ret |-> 1, uaf |-> FALSE]
    ELSE IF Freed(h, ptr)
    THEN [heap |-> [h EXCEPT ![ptr].frees = @ + 1], ret |-> 1, uaf |-> TRUE]
    ELSE IF h[ptr].refs > 1
    THEN [heap |-> [h EXCEPT ![ptr].refs = @ - 1], ret |-> 1, uaf |-> FALSE]
    ELSE ReleaseAll([h EXCEPT ![ptr] = [@ EXCEPT !.refs = 0, !.frees = 1, !.val = <<>>]],
                    Children(h[ptr]))

ReleaseAll(h, ptrs) ==
    IF ptrs = <<>> THEN [heap |-> h, ret |-> 1, uaf |-> FALSE]
    ELSE LET r == Release(h, ptrs[1])
             rest == ReleaseAll(r.heap, Tail(ptrs))
         IN  [heap |-> rest.heap, ret |-> 1, uaf |-> r.uaf \/ rest.uaf]

\* Taking one more reference to an object.
Retain(h, ptr) ==
    IF ptr = NULL THEN [heap |-> h, ret |-> 1, uaf |-> FALSE]
    ELSE IF Freed(h, ptr) THEN [heap |-> h, ret |-> 1, uaf |-> TRUE]
    ELSE [heap |-> [h EXCEPT ![ptr].refs = @ + 1], ret |-> 1, uaf |-> FALSE]

HMAC_CTX_new(h, ok) == Allocate(h, "HMAC_CTX", <<>>, ok)

\* Returns 1, or 0 on allocation failure.
HMAC_Init_ex(h, ctx, key, md, ok) ==
    IF Freed(h, ctx) THEN [heap |-> h, ret |-> 0, uaf |-> TRUE]
    ELSE IF ok THEN [heap |-> [h EXCEPT ![ctx].val = HmacInit(md, key)], ret |-> 1,
                     uaf |-> FALSE]
    ELSE [heap |-> h, ret |-> 0, uaf |-> FALSE]

\* Always returns 1.
HMAC_Update(h, ctx, data) ==
    IF Freed(h, ctx) THEN [heap |-> h, ret |-> 1, uaf |-> TRUE]
    ELSE [heap |-> [h EXCEPT ![ctx].val = HmacUpdate(@, data)], ret |-> 1,
          uaf |-> FALSE]

\* Writes the tag to `out` and returns 1, or returns 0 on allocation failure.
HMAC_Final(h, ctx, ok) ==
    IF Freed(h, ctx) THEN [heap |-> h, ret |-> 0, out |-> <<>>, uaf |-> TRUE]
    ELSE IF ok THEN [heap |-> h, ret |-> 1, out |-> HmacFinal(h[ctx].val), uaf |-> FALSE]
    ELSE [heap |-> h, ret |-> 0, out |-> <<>>, uaf |-> FALSE]

HMAC_CTX_free(h, ctx) == Release(h, ctx)

\* The one-shot HMAC(md, key, data, out): `out` on success, NULL on failure.
HMAC(md, key, data, ok) ==
    IF ok THEN [ret |-> 1, out |-> HmacFinal(HmacUpdate(HmacInit(md, key), data))]
    ELSE [ret |-> NULL, out |-> <<>>]

\* 0 exactly when the first n bytes of a and b are equal.
CRYPTO_memcmp(a, b, n) == IF SubSeq(a, 1, n) = SubSeq(b, 1, n) THEN 0 ELSE 1

(***************************************************************************)
(* hmac.rs.  Each operation is given the native heap and the outcome of    *)
(* the allocations the native library makes during the call, and yields    *)
(* its result, the heap after it and the object the caller is left with.   *)
(* A panic unwinds, which drops what the panicking frame owns.             *)
(***************************************************************************)
InvalidLength == "InvalidLength"

MacError == "MacError"

\* panic_if_error (lib.rs): a null pointer or a return value that is not > 0.
AllocationFailed == [ok |-> FALSE, err |-> "panic: allocation failed!", out |-> <<>>,
                     obj |-> <<>>]

\* expect() in HmacImpl::new on an Err value.
ExpectFailed == [ok |-> FALSE,
                 err |-> "panic: output length of hash is always a valid hmac key size",
                 out |-> <<>>, obj |-> <<>>]

Outcome(res, h, self, uaf) == [res |-> res, heap |-> h, self |-> self, uaf |-> uaf]

\* Memory is available for every allocation of a call.
Plenty == [new |-> TRUE, init |-> TRUE, final |-> TRUE]

\* Memory runs out at none or at one of the allocations of a call.
Memory == {Plenty, [Plenty EXCEPT !.new = FALSE], [Plenty EXCEPT !.init = FALSE],
           [Plenty EXCEPT !.final = FALSE]}

HmacImpl(ctx, N, M) == [ctx |-> ctx, N |-> N, M |-> M]

validate_key_len_inclusive(len) == ~(len >= EVP_MAX_MD_BLOCK_SIZE)

validate_key_len(len) == ~(len > EVP_MAX_MD_BLOCK_SIZE)

HmacImpl_drop(h, self) == HMAC_CTX_free(h, self.ctx)

HmacImpl_new_from_slice(h, N, M, key, mem) ==
    IF validate_key_len(Len(key))
    THEN LET a == HMAC_CTX_new(h, mem.new)
         IN  IF a.ret = NULL THEN Outcome(AllocationFailed, a.heap, <<>>, a.uaf)
             ELSE LET i == HMAC_Init_ex(a.heap, a.ret, key, M, mem.init)
                  IN  IF i.ret > 0
                      THEN Outcome(Ok(<<>>), i.heap, <<HmacImpl(a.ret, N, M)>>, i.uaf)
                      ELSE Outcome(AllocationFailed, i.heap, <<>>, i.uaf)
    ELSE Outcome(Err(InvalidLength), h, <<>>, FALSE)

HmacImpl_new(h, N, M, key, mem) ==
    LET r == HmacImpl_new_from_slice(h, N, M, key, mem)
    IN  IF r.res.err = InvalidLength THEN [r EXCEPT !.res = ExpectFailed] ELSE r

HmacImpl_update_first(h, self, data) ==
    LET u == HMAC_Update(h, self.ctx, IF data = <<>> THEN data ELSE <<data[1]>>)
    IN  Outcome(IF u.ret > 0 THEN Ok(<<>>) ELSE AllocationFailed, u.heap, <<self>>, u.uaf)

HmacImpl_update(h, self, data) ==
    LET u == HMAC_Update(h, self.ctx, data)
    IN  Outcome(IF u.ret > 0 THEN Ok(<<>>) ELSE AllocationFailed, u.heap, <<self>>, u.uaf)

\* The N-byte buffer, zeroed, after the native call wrote `out` to its start.
Buffer(N, out) == [i \in 1..N |-> IF i <= Len(out) THEN out[i] ELSE 0]

\* `self` is moved in and dropped when the call returns or unwinds.
HmacImpl_finalize(h, self, mem) ==
    LET f == HMAC_Final(h, self.ctx, mem.final)
        d == HmacImpl_drop(f.heap, self)
    IN  Outcome(IF f.ret > 0 THEN Ok(Buffer(self.N, f.out)) ELSE AllocationFailed,
                d.heap, <<>>, f.uaf \/ d.uaf)

HmacImpl_verify_truncated_left_any(h, self, tag, mem) ==
    LET len == Len(tag)
    IN  IF len > self.N
        THEN LET d == HmacImpl_drop(h, self)
             IN  Outcome(Err(MacError), d.heap, <<>>, d.uaf)
        ELSE LET f == HmacImpl_finalize(h, self, mem)
             IN  IF ~f.res.ok THEN f
                 ELSE LET result == SubSeq(f.res.out, 1, len)
                      IN  Outcome(IF CRYPTO_memcmp(result, tag, Len(result)) = 0
                                  THEN Ok(<<>>) ELSE Err(MacError),
                                  f.heap, <<>>, f.uaf)

HmacImpl_verify_truncated_left(h, self, tag, mem) ==
    LET len == Len(tag)
    IN  IF len = 0 \/ len > self.N
        THEN LET d == HmacImpl_drop(h, self)
             IN  Outcome(Err(MacError), d.heap, <<>>, d.uaf)
        ELSE LET f == HmacImpl_finalize(h, self, mem)
             IN  IF ~f.res.ok THEN f
                 ELSE LET result == SubSeq(f.res.out, 1, len)
                      IN  Outcome(IF CRYPTO_memcmp(result, tag, Len(result)) = 0
                                  THEN Ok(<<>>) ELSE Err(MacError),
                                  f.heap, <<>>, f.uaf)

HmacImpl_verify_slice(h, self, tag, mem) ==
    IF Len(tag) # self.N
    THEN LET d == HmacImpl_drop(h, self)
         IN  Outcome(Err(MacError), d.heap, <<>>, d.uaf)
    ELSE HmacImpl_verify_truncated_left(h, self, tag, mem)

HmacImpl_verify(h, self, tag, mem) == HmacImpl_verify_slice(h, self, tag, mem)

\* The one-shot operation.
hmac(N, M, key, data, mem) ==
    LET r == HMAC(M, key, data, mem.final)
    IN  IF r.ret = NULL THEN AllocationFailed ELSE Ok(Buffer(N, r.out))

hmac_sha_256(key, data, mem) == hmac(Sha256.size, Sha256, key, data, mem)

hmac_sha_512(key, data, mem) == hmac(Sha512.size, Sha512, key, data, mem)

(***************************************************************************)
(* A client of the HMAC bindings.                                          *)
(***************************************************************************)
\* Longest message fed to one HMAC and longest chunk of one update.  A run
\* creates one HmacImpl.
MaxMessage == 3
MaxChunk == 2

Octets(n) == UNION {[1..k -> Byte] : k \in 0..n}

Digests == {Sha256, Sha512}

\* Keys of every length up to one past the largest block size, and a second
\* key of each digest's output size.
HmacKeys ==
    {[i \in 1..n |-> 1] : n \in 0..(EVP_MAX_MD_BLOCK_SIZE + 1)}
        \cup {[i \in 1..M.size |-> 0] : M \in Digests}

\* The MAC of the data fed so far under the key the HmacImpl was created with.
MacOf(M, key, data) == HmacFinal(HmacUpdate(HmacInit(M, key), data))

\* No HPKE object exists.
NoHpke ==
    /\ params = <<>>
    /\ sender = <<>>
    /\ recipient = <<>>
    /\ peer = [sk |-> <<>>, info |-> <<>>]
    /\ sealed = FALSE
    /\ destroyed = {}
    /\ last = Call("none", <<>>, 0, Ok(<<>>), "none")

hpke == <<params, sender, recipient, peer, sealed, destroyed, eckey, pkey, pkeyctx, provider, can>>

InitHmac == NoHpke /\ NativeIdle /\ NoProvider

\* What a call leaves behind.
Returned(op, args, r) ==
    /\ heap' = r.heap
    /\ mac' = r.self
    /\ wrapped' = wrapped \cup {w.ctx : w \in {r.self[i] : i \in 1..Len(r.self)}}
    /\ fault' = IF r.uaf THEN fault \cup {op} ELSE fault
    /\ last' = Call(op, args, 0, r.res, "none")

CallNewFromSlice ==
    /\ heap = <<>>
    /\ \E M \in Digests, key \in HmacKeys, mem \in Memory :
           /\ Returned("new_from_slice", <<M.md, key>>,
                       HmacImpl_new_from_slice(heap, M.size, M, key, mem))
           /\ fed' = [M |-> M, key |-> key, data |-> <<>>]
    /\ UNCHANGED hpke

CallNew ==
    /\ heap = <<>>
    /\ \E M \in Digests, mem \in Memory :
           \E key \in {k \in HmacKeys : Len(k) = M.size} :
               /\ Returned("new", <<M.md, key>>, HmacImpl_new(heap, M.size, M, key, mem))
               /\ fed' = [M |-> M, key |-> key, data |-> <<>>]
    /\ UNCHANGED hpke

CallUpdate ==
    /\ mac # <<>>
    /\ \E data \in Octets(MaxChunk) :
           /\ Len(fed.data) + Len(data) <= MaxMessage
           /\ Returned("update", <<>>, HmacImpl_update(heap, mac[1], data))
           /\ fed' = [fed EXCEPT !.data = @ \o data]
    /\ UNCHANGED hpke

CallFinalize ==
    /\ mac # <<>>
    /\ \E mem \in Memory :
           Returned("finalize", <<>>, HmacImpl_finalize(heap, mac[1], mem))
    /\ UNCHANGED <<hpke, fed>>

CallVerifyTruncatedLeft ==
    /\ mac # <<>>
    /\ \E tag \in Octets(mac[1].N + 1), mem \in Memory :
           Returned("verify_truncated_left", tag,
                    HmacImpl_verify_truncated_left(heap, mac[1], tag, mem))
    /\ UNCHANGED <<hpke, fed>>

CallVerifySlice ==
    /\ mac # <<>>
    /\ \E tag \in Octets(mac[1].N + 1), mem \in Memory :
           Returned("verify_slice", tag, HmacImpl_verify_slice(heap, mac[1], tag, mem))
    /\ UNCHANGED <<hpke, fed>>

CallVerify ==
    /\ mac # <<>>
    /\ \E tag \in [1..mac[1].N -> Byte], mem \in Memory :
           Returned("verify", tag, HmacImpl_verify(heap, mac[1], tag, mem))
    /\ UNCHANGED <<hpke, fed>>

\* The client lets go of an HmacImpl it has not consumed.
DropHmac ==
    /\ mac # <<>>
    /\ LET d == HmacImpl_drop(heap, mac[1])
       IN  Returned("drop", <<>>, Outcome(Ok(<<>>), d.heap, <<>>, d.uaf))
    /\ UNCHANGED <<hpke, fed>>

\* The one-shot operation touches no object; the client calls it before it
\* creates one.
CallHmacOneShot ==
    /\ heap = <<>>
    /\ \E key \in HmacKeys, data \in Octets(MaxChunk), mem \in Memory :
           \/ last' = Call("hmac_sha_256", <<key, data>>, 0,
                           hmac_sha_256(key, data, mem), "none")
           \/ last' = Call("hmac_sha_512", <<key, data>>, 0,
                           hmac_sha_512(key, data, mem), "none")
    /\ fed' = [M |-> <<>>, key |-> <<>>, data |-> <<>>]
    /\ UNCHANGED <<hpke, mac, heap, fault, wrapped>>

NextHmac ==
    \/ CallNewFromSlice
    \/ CallNew
    \/ CallUpdate
    \/ CallFinalize
    \/ CallVerifyTruncatedLeft
    \/ CallVerifySlice
    \/ CallVerify
    \/ DropHmac
    \/ CallHmacOneShot

SpecHmac == InitHmac /\ [][NextHmac]_vars

(***************************************************************************)
(* Key objects of the native library: an EC_KEY holds a scalar, an         *)
(* EVP_PKEY holds the reference to its EC_KEY, an EVP_PKEY_CTX holds       *)
(* references to its key and to the peer's key.                            *)
(***************************************************************************)
EVP_PKEY_new(h, ok) == Allocate(h, "EVP_PKEY", [ec |-> NULL], ok)

\* Takes over the caller's reference to the key; 1 on success.
EVP_PKEY_assign_EC_KEY(h, p, key, ok) ==
    IF Freed(h, p) \/ Freed(h, key) THEN [heap |-> h, ret |-> 0, uaf |-> TRUE]
    ELSE IF ok THEN [heap |-> [h EXCEPT ![p].val.ec = key], ret |-> 1, uaf |-> FALSE]
    ELSE [heap |-> h, ret |-> 0, uaf |-> FALSE]

EVP_PKEY_free(h, p) == Release(h, p)

\* Takes its own reference to the key.
EVP_PKEY_CTX_new(h, p, ok) ==
    IF Freed(h, p) THEN [heap |-> h, ret |-> NULL, uaf |-> TRUE]
    ELSE IF ok
    THEN Allocate(Retain(h, p).heap, "EVP_PKEY_CTX", [pkey |-> p, peer |-> NULL], TRUE)
    ELSE [heap |-> h, ret |-> NULL, uaf |-> FALSE]

EVP_PKEY_derive_init(h, ctx, ok) ==
    [heap |-> h, ret |-> IF ok /\ ~Freed(h, ctx) THEN 1 ELSE 0, uaf |-> Freed(h, ctx)]

\* Takes its own reference to the peer's key.
EVP_PKEY_derive_set_peer(h, ctx, other, ok) ==
    IF Freed(h, ctx) \/ Freed(h, other) THEN [heap |-> h, ret |-> 0, uaf |-> TRUE]
    ELSE IF ok
    THEN [heap |-> [Retain(h, other).heap EXCEPT ![ctx].val.peer = other], ret |-> 1,
          uaf |-> FALSE]
    ELSE [heap |-> h, ret |-> 0, uaf |-> FALSE]

\* `ret` is what the library returns; on 1 the shared secret is written out.
EVP_PKEY_derive(h, ctx, ret) ==
    IF Freed(h, ctx) THEN [heap |-> h, ret |-> 0, out |-> <<>>, uaf |-> TRUE]
    ELSE LET mine == h[ctx].val.pkey
             theirs == h[ctx].val.peer
         IN  IF Freed(h, mine) \/ Freed(h, theirs) \/ Freed(h, h[mine].val.ec)
                    \/ Freed(h, h[theirs].val.ec)
             THEN [heap |-> h, ret |-> 0, out |-> <<>>, uaf |-> TRUE]
             ELSE [heap |-> h, ret |-> ret,
                   out |-> IF ret = 1 THEN <<h[h[mine].val.ec].val.d * h[h[theirs].val.ec].val.d>>
                           ELSE <<>>,
                   uaf |-> FALSE]

EVP_PKEY_CTX_free(h, ctx) == Release(h, ctx)

(***************************************************************************)
(* pkey.rs, with the EcKey of ec.rs: a pointer to an EC_KEY that is freed  *)
(* when the EcKey is dropped.                                              *)
(***************************************************************************)
\* assert!, assert_eq! and panic! in pkey.rs.
AssertFailed == [ok |-> FALSE, err |-> "panic: assertion failed", out |-> <<>>,
                 obj |-> <<>>]

EcKey(ptr) == [ptr |-> ptr]

\* EC_KEY_free(self.ptr)
EcKey_drop(h, self) == Release(h, self.ptr)

Pkey(ptr) == [ptr |-> ptr]

\* From<EcKey> without ManuallyDrop: the EcKey is dropped when `from` returns.
Pkey_from_dropping(h, key, alloc, assign) ==
    LET a == EVP_PKEY_new(h, alloc)
    IN  IF a.ret = NULL
        THEN LET d == EcKey_drop(a.heap, key)
             IN  Outcome(AssertFailed, d.heap, <<>>, d.uaf)
        ELSE LET r == EVP_PKEY_assign_EC_KEY(a.heap, a.ret, key.ptr, assign)
                 d == EcKey_drop(r.heap, key)
             IN  Outcome(IF r.ret = 1 THEN Ok(<<>>) ELSE AssertFailed, d.heap,
                         IF r.ret = 1 THEN <<Pkey(a.ret)>> ELSE <<>>, r.uaf \/ d.uaf)

\* impl From<EcKey> for Pkey.  A failed null check unwinds and drops the EcKey;
\* after ManuallyDrop::new nothing drops it.
Pkey_from(h, key, alloc, assign) ==
    LET a == EVP_PKEY_new(h, alloc)
    IN  IF a.ret = NULL
        THEN LET d == EcKey_drop(a.heap, key)
             IN  Outcome(AssertFailed, d.heap, <<>>, d.uaf)
        ELSE LET r == EVP_PKEY_assign_EC_KEY(a.heap, a.ret, key.ptr, assign)
             IN  Outcome(IF r.ret = 1 THEN Ok(<<>>) ELSE AssertFailed, r.heap,
                         IF r.ret = 1 THEN <<Pkey(a.ret)>> ELSE <<>>, r.uaf)

Pkey_drop(h, self) == EVP_PKEY_free(h, self.ptr)

PkeyCtx(ptr) == [ptr |-> ptr]

PkeyCtx_new(h, p, alloc) ==
    LET a == EVP_PKEY_CTX_new(h, p.ptr, alloc)
    IN  IF a.ret = NULL THEN Outcome(AssertFailed, a.heap, <<>>, a.uaf)
        ELSE Outcome(Ok(<<>>), a.heap, <<PkeyCtx(a.ret)>>, a.uaf)

PkeyCtx_drop(h, self) == EVP_PKEY_CTX_free(h, self.ptr)

\* `self` is moved in and dropped when the call returns or unwinds.
PkeyCtx_diffie_hellman(h, self, other_public_key, native) ==
    LET i == EVP_PKEY_derive_init(h, self.ptr, native.init)
        p == EVP_PKEY_derive_set_peer(i.heap, self.ptr, other_public_key.ptr, native.peer)
        v == EVP_PKEY_derive(p.heap, self.ptr, native.derive)
    IN  IF i.ret # 1
        THEN LET d == PkeyCtx_drop(i.heap, self)
             IN  Outcome(AssertFailed, d.heap, <<>>, i.uaf \/ d.uaf)
        ELSE IF p.ret # 1
        THEN LET d == PkeyCtx_drop(p.heap, self)
             IN  Outcome(AssertFailed, d.heap, <<>>, i.uaf \/ p.uaf \/ d.uaf)
        ELSE LET d == PkeyCtx_drop(v.heap, self)
             IN  Outcome(IF v.ret = 0 THEN Err("bssl_sys::EVP_PKEY_derive failed")
                         ELSE IF v.ret = 1 THEN Ok(v.out)
                         ELSE AssertFailed,
                         d.heap, <<>>, i.uaf \/ p.uaf \/ v.uaf \/ d.uaf)

(***************************************************************************)
(* A client of the key objects.                                            *)
(***************************************************************************)
\* The two sides of a key agreement, each with an EC key of its own.
Parties == {"self", "other_public_key"}

\* The number of key contexts a run creates.
MaxContexts == 1

\* What the native calls of diffie_hellman return: all succeed, or one fails.
Derivations ==
    LET fine == [init |-> TRUE, peer |-> TRUE, derive |-> 1]
    IN  {fine, [fine EXCEPT !.init = FALSE], [fine EXCEPT !.peer = FALSE],
         [fine EXCEPT !.derive = 0], [fine EXCEPT !.derive = 2]}

Count(kind) == Cardinality({ptr \in DOMAIN heap : heap[ptr].kind = kind})

KeyReturned(op, args, r) ==
    /\ heap' = r.heap
    /\ fault' = IF r.uaf THEN fault \cup {op} ELSE fault
    /\ wrapped' = wrapped \cup {r.self[i].ptr : i \in 1..Len(r.self)}
    /\ last' = Call(op, args, 0, r.res, "none")
    /\ UNCHANGED <<params, sender, recipient, peer, sealed, destroyed, mac, fed, provider, can>>

\* The client obtains an EcKey (ec.rs).
NewEcKey ==
    /\ \A ptr \in DOMAIN heap : heap[ptr].kind # "HMAC_CTX"
    /\ Count("EC_KEY") < Cardinality(Parties)
    /\ \E d \in {2, 3} :
           LET a == Allocate(heap, "EC_KEY", [d |-> d], TRUE)
           IN  /\ KeyReturned("EcKey", <<d>>, Outcome(Ok(<<>>), a.heap, <<EcKey(a.ret)>>, a.uaf))
               /\ eckey' = eckey \cup {EcKey(a.ret)}
    /\ UNCHANGED <<pkey, pkeyctx>>

CallPkeyFrom ==
    /\ \E key \in eckey, alloc \in BOOLEAN, assign \in BOOLEAN :
           LET r == Pkey_from(heap, key, alloc, assign)
           IN  /\ KeyReturned("Pkey::from", <<key.ptr>>, r)
               /\ eckey' = eckey \ {key}
               /\ pkey' = pkey \cup {r.self[i] : i \in 1..Len(r.self)}
    /\ UNCHANGED pkeyctx

DropPkey ==
    /\ \E p \in pkey :
           LET d == Pkey_drop(heap, p)
           IN  /\ KeyReturned("drop Pkey", <<p.ptr>>, Outcome(Ok(<<>>), d.heap, <<>>, d.uaf))
               /\ pkey' = pkey \ {p}
    /\ UNCHANGED <<eckey, pkeyctx>>

CallPkeyCtxNew ==
    /\ Count("EVP_PKEY_CTX") < MaxContexts
    /\ \E p \in pkey, alloc \in BOOLEAN :
           LET r == PkeyCtx_new(heap, p, alloc)
           IN  /\ KeyReturned("PkeyCtx::new", <<p.ptr>>, r)
               /\ pkeyctx' = pkeyctx \cup {r.self[i] : i \in 1..Len(r.self)}
    /\ UNCHANGED <<eckey, pkey>>

CallDiffieHellman ==
    /\ \E ctx \in pkeyctx, other \in pkey, native \in Derivations :
           LET r == PkeyCtx_diffie_hellman(heap, ctx, other, native)
           IN  /\ KeyReturned("PkeyCtx::diffie_hellman", <<ctx.ptr, other.ptr>>, r)
               /\ pkeyctx' = pkeyctx \ {ctx}
    /\ UNCHANGED <<eckey, pkey>>

DropPkeyCtx ==
    /\ \E ctx \in pkeyctx :
           LET d == PkeyCtx_drop(heap, ctx)
           IN  /\ KeyReturned("drop PkeyCtx", <<ctx.ptr>>,
                              Outcome(Ok(<<>>), d.heap, <<>>, d.uaf))
               /\ pkeyctx' = pkeyctx \ {ctx}
    /\ UNCHANGED <<eckey, pkey>>

NextNative ==
    \/ CallNewFromSlice
    \/ CallNew
    \/ CallUpdate
    \/ CallFinalize
    \/ CallVerifyTruncatedLeft
    \/ CallVerifySlice
    \/ CallVerify
    \/ DropHmac
    \/ NewEcKey
    \/ CallPkeyFrom
    \/ DropPkey
    \/ CallPkeyCtxNew
    \/ CallDiffieHellman
    \/ DropPkeyCtx

SpecNative == InitHmac /\ [][NextNative]_vars

(***************************************************************************)
(* mls-rs-crypto-boringssl/src/lib.rs: the provider of cipher suites.  The *)
(* constructors of the components live in the modules aead, ec_signer,     *)
(* ecdh, hpke, kdf and mac; each accepts the suites `can` lists for it.    *)
(***************************************************************************)
None == <<>>

Some(x) == <<x>>

\* Ecdh::new, Kdf::new, DhKem::new, AeadWrapper::new, Hash::new, EcSigner::new.
Component_new(c, cipher_suite) ==
    IF cipher_suite \in can[c] THEN Some([component |-> c, cipher_suite |-> cipher_suite])
    ELSE None

\* Hpke::new
Hpke_new(cipher_suite) == [component |-> "hpke", cipher_suite |-> cipher_suite]

BoringsslCryptoProvider(enabled_cipher_suites) ==
    [enabled_cipher_suites |-> enabled_cipher_suites]

all_supported_cipher_suites == CipherSuite_all

BoringsslCryptoProvider_default == BoringsslCryptoProvider(all_supported_cipher_suites)

BoringsslCryptoProvider_new == BoringsslCryptoProvider_default

with_enabled_cipher_suites(enabled_cipher_suites) ==
    BoringsslCryptoProvider(enabled_cipher_suites)

supported_cipher_suites(self) == self.enabled_cipher_suites

\* Vec::contains
contains(vec, x) == \E i \in 1..Len(vec) : vec[i] = x

BoringsslCipherSuite_new(cipher_suite, kem, kdf, aead) ==
    LET hash == Component_new("hash", cipher_suite)
        ec_signer == Component_new("ec_signer", cipher_suite)
    IN  IF hash = None THEN None
        ELSE IF ec_signer = None THEN None
        ELSE Some([cipher_suite |-> cipher_suite, hash |-> hash[1], kem |-> kem,
                   kdf |-> kdf, aead |-> aead, hpke |-> Hpke_new(cipher_suite),
                   ec_signer |-> ec_signer[1]])

cipher_suite_provider_any(self, cipher_suite) ==
    LET ecdh == Component_new("ecdh", cipher_suite)
        kdf == Component_new("kdf", cipher_suite)
        kem == Component_new("kem", cipher_suite)
        aead == Component_new("aead", cipher_suite)
    IN  IF ecdh = None THEN None
        ELSE IF kdf = None THEN None
        ELSE IF kem = None THEN None
        ELSE IF aead = None THEN None
        ELSE BoringsslCipherSuite_new(cipher_suite, kem[1], kdf[1], aead[1])

cipher_suite_provider(self, cipher_suite) ==
    IF ~contains(self.enabled_cipher_suites, cipher_suite) THEN None
    ELSE LET ecdh == Component_new("ecdh", cipher_suite)
             kdf == Component_new("kdf", cipher_suite)
             kem == Component_new("kem", cipher_suite)
             aead == Component_new("aead", cipher_suite)
         IN  IF ecdh = None THEN None
             ELSE IF kdf = None THEN None
             ELSE IF kem = None THEN None
             ELSE IF aead = None THEN None
             ELSE BoringsslCipherSuite_new(cipher_suite, kem[1], kdf[1], aead[1])

cipher_suite(self) == self.cipher_suite

(***************************************************************************)
(* A client of the provider.                                               *)
(***************************************************************************)
\* Longest list of enabled suites the client passes.
MaxEnabled == 2

\* Suite identifiers: those of CipherSuite::all(), and one below and one above.
CipherSuites == 0..(MaxSuite + 1)

EnabledLists == UNION {[1..n -> CipherSuites] : n \in 0..MaxEnabled}

InitAdapter ==
    /\ NoHpke
    /\ NativeIdle
    /\ provider = <<>>
    /\ \E missing \in SUBSET Components : can = Able(missing)

Answered(op, args, res) ==
    /\ last' = Call(op, args, 0, res, "none")
    /\ UNCHANGED <<params, sender, recipient, peer, sealed, destroyed, natives, can>>

CallProviderNew ==
    /\ provider = <<>>
    /\ provider' = <<BoringsslCryptoProvider_new>>
    /\ Answered("BoringsslCryptoProvider::new", <<>>, Ok(<<>>))

CallWithEnabledCipherSuites ==
    \E enabled \in EnabledLists :
        /\ provider = <<>>
        /\ provider' = <<with_enabled_cipher_suites(enabled)>>
        /\ Answered("with_enabled_cipher_suites", <<enabled>>, Ok(<<>>))

CallSupportedCipherSuites ==
    /\ provider # <<>>
    /\ Answered("supported_cipher_suites", <<>>, Ok(supported_cipher_suites(provider[1])))
    /\ UNCHANGED provider

CallCipherSuiteProvider ==
    /\ provider # <<>>
    /\ \E suite \in CipherSuites :
           Answered("cipher_suite_provider", <<suite>>,
                    [Ok(<<>>) EXCEPT !.obj = cipher_suite_provider(provider[1], suite)])
    /\ UNCHANGED provider

\* cipher_suite() of the provider that cipher_suite_provider just returned.
CallCipherSuite ==
    /\ last.op = "cipher_suite_provider"
    /\ last.res.obj # None
    /\ Answered("cipher_suite", last.args, Ok(cipher_suite(last.res.obj[1])))
    /\ UNCHANGED provider

NextAdapter ==
    \/ CallProviderNew
    \/ CallWithEnabledCipherSuites
    \/ CallSupportedCipherSuites
    \/ CallCipherSuiteProvider
    \/ CallCipherSuite

SpecAdapter == InitAdapter /\ [][NextAdapter]_vars

(***************************************************************************)
(* Properties.                                                             *)
(***************************************************************************)
SupportedSuite == <<KEM_X25519_HKDF_SHA256, KDF_HKDF_SHA256, AEAD_AES_128_GCM>>

C8_ParamsNew ==
    /\ last.op = "Params::new"
        => IF last.args = SupportedSuite
           THEN last.res.ok /\ last.res.obj = <<Params(last.args[1], last.args[2],
                                                       last.args[3])>>
           ELSE last.res = Err(HpkeError)
    /\ <<params[1].kem, params[1].kdf, params[1].aead>> = SupportedSuite

OutOfMemory == last.res.err = AllocationFailed.err

\* C14: verify_truncated_left(tag) returns Ok exactly when the tag has between
\* 1 and N bytes and equals the first len(tag) bytes of the MAC over all data
\* passed to update, and MacError otherwise; verify_slice(tag) and verify(tag)
\* return Ok exactly when, in addition, the tag has N bytes.  (A call that runs
\* out of memory returns nothing.)
C14_TagVerification ==
    LET tag == last.args
        N == fed.M.size
        prefix == /\ 1 <= Len(tag)
                  /\ Len(tag) <= N
                  /\ tag = SubSeq(MacOf(fed.M, fed.key, fed.data), 1, Len(tag))
    IN  /\ (last.op = "verify_truncated_left" /\ ~OutOfMemory)
            => /\ last.res.ok <=> prefix
               /\ ~last.res.ok => last.res.err = MacError
        /\ (last.op \in {"verify_slice", "verify"} /\ ~OutOfMemory)
            => /\ last.res.ok <=> (prefix /\ Len(tag) = N)
               /\ ~last.res.ok => last.res.err = MacError

\* A truncated tag was accepted after data was fed.
C14_Witness ==
    /\ last.op = "verify_truncated_left"
    /\ last.res.ok
    /\ Len(last.args) < fed.M.size
    /\ fed.data # <<>>


\* C15: new_from_slice(key) returns InvalidLength exactly when the key is
\* longer than EVP_MAX_MD_BLOCK_SIZE, and then allocates no native context and
\* yields no object; for every other key it yields an HmacImpl, and new(key)
\* with an N-byte key always does.  (A call that runs out of memory returns
\* nothing.)
C15_KeyLength ==
    /\ [](LET key == last.args[2]
          IN  /\ (last.op = "new_from_slice" /\ ~OutOfMemory)
                  => /\ last.res.err = InvalidLength
                         <=> Len(key) > EVP_MAX_MD_BLOCK_SIZE
                     /\ last.res.err = InvalidLength => mac = <<>>
                     /\ Len(key) <= EVP_MAX_MD_BLOCK_SIZE
                         => last.res.ok /\ mac # <<>> /\ ~Freed(heap, mac[1].ctx)
              /\ (last.op = "new" /\ ~OutOfMemory)
                  => last.res.ok /\ mac # <<>> /\ ~Freed(heap, mac[1].ctx))
    /\ [][(last'.op = "new_from_slice" /\ last'.res.err = InvalidLength)
              => heap' = heap]_vars

\* new_from_slice has refused a key one byte longer than the largest block.
C15_Witness ==
    /\ last.op = "new_from_slice"
    /\ last.res.err = InvalidLength
    /\ Len(last.args[2]) = EVP_MAX_MD_BLOCK_SIZE + 1
    /\ mac = <<>>
    /\ heap = <<>>

\* C16: the one-shot hmac_sha_256 / hmac_sha_512 returns the HMAC of the data
\* under the key, or InvalidLength when the key is longer than
\* EVP_MAX_MD_BLOCK_SIZE.  (A call that runs out of memory returns nothing.)
C16_OneShot ==
    (last.op \in {"hmac_sha_256", "hmac_sha_512"} /\ ~OutOfMemory)
        => LET key == last.args[1]
               data == last.args[2]
               M == IF last.op = "hmac_sha_256" THEN Sha256 ELSE Sha512
           IN  IF validate_key_len(Len(key))
               THEN last.res.ok /\ last.res.out = MacOf(M, key, data)
               ELSE last.res.err = InvalidLength

\* The tag of an HmacImpl created with the key, fed the whole message by one
\* update and finalized.
SingleUpdateTag(M, key, data) ==
    LET n == HmacImpl_new_from_slice(<<>>, M.size, M, key, Plenty)
        u == HmacImpl_update(n.heap, n.self[1], data)
    IN  HmacImpl_finalize(u.heap, u.self[1], Plenty).res.out

\* C17: whatever the split of a message into the chunks passed to update,
\* finalize returns the tag that a single update with the whole message gives,
\* and that tag is the one the one-shot operation returns for the same key
\* and message.  (The keys are those an HmacImpl can be created with.)
C17_StreamingEquivalence ==
    (last.op = "finalize" /\ last.res.ok)
        => /\ last.res.out = SingleUpdateTag(fed.M, fed.key, fed.data)
           /\ last.res.out = hmac(fed.M.size, fed.M, fed.key, fed.data, Plenty).out

\* finalize has returned a tag for a message that took more than one update.
C17_Witness ==
    /\ last.op = "finalize"
    /\ last.res.ok
    /\ Len(fed.data) > MaxChunk
    /\ fed.key # <<>>

\* The wrapping objects that hold the address.
Owners(ptr) ==
    Cardinality({i \in 1..Len(mac) : mac[i].ctx = ptr})
        + Cardinality({w \in eckey : w.ptr = ptr})
        + Cardinality({w \in pkey : w.ptr = ptr})
        + Cardinality({w \in pkeyctx : w.ptr = ptr})

\* The references that native objects hold to the address.
NativeRefs(ptr) ==
    Cardinality({c \in (DOMAIN heap) \X (1..2) :
                    /\ c[2] <= Len(Children(heap[c[1]]))
                    /\ Children(heap[c[1]])[c[2]] = ptr})

\* C18: no native object is used or freed after it was freed; every handle
\* that an HmacImpl, Pkey or PkeyCtx has owned carries exactly the references
\* of the objects that still hold it, so it is freed exactly once when its
\* owner is consumed or dropped and not before; each object the client holds
\* owns one handle of its own; and an EC key is referenced by its EcKey or by
\* the Pkey it was converted into, never by both.
C18_HandleOwnership ==
    /\ fault = {}
    /\ \A ptr \in DOMAIN heap :
           /\ heap[ptr].frees <= 1
           /\ Owners(ptr) <= 1
           /\ Owners(ptr) = 1 => ptr \in wrapped
           /\ (ptr \in wrapped /\ heap[ptr].kind # "EC_KEY")
               => heap[ptr].refs = Owners(ptr) + NativeRefs(ptr)
           /\ heap[ptr].kind = "EC_KEY"
               => /\ Owners(ptr) + NativeRefs(ptr) <= heap[ptr].refs
                  /\ heap[ptr].refs <= 1

\* Two EC keys were converted, one served a key agreement, and every native
\* object has since been freed once.
C18_Witness ==
    /\ Count("EC_KEY") = Cardinality(Parties)
    /\ Count("EVP_PKEY") = Cardinality(Parties)
    /\ Count("EVP_PKEY_CTX") >= 1
    /\ \A ptr \in DOMAIN heap : heap[ptr].frees = 1
    /\ last.op = "drop Pkey"

\* C19: cipher_suite_provider(suite) returns None whenever the suite is not in
\* enabled_cipher_suites; when it returns a provider, the suite is enabled,
\* every component can be constructed for it, and the provider's
\* cipher_suite() is the requested suite; supported_cipher_suites() returns
\* the enabled list, which for the default provider is CipherSuite::all().
C19_SuiteSelection ==
    /\ last.op = "cipher_suite_provider"
        => LET suite == last.args[1]
               enabled == contains(provider[1].enabled_cipher_suites, suite)
               built == \A c \in Components : suite \in can[c]
           IN  /\ ~enabled => last.res.obj = None
               /\ last.res.obj # None <=> (enabled /\ built)
               /\ last.res.obj # None => last.res.obj[1].cipher_suite = suite
    /\ last.op = "cipher_suite" => last.res.out = last.args[1]
    /\ last.op = "supported_cipher_suites"
        => last.res.out = provider[1].enabled_cipher_suites
    /\ last.op = "BoringsslCryptoProvider::new"
        => supported_cipher_suites(provider[1]) = CipherSuite_all

\* A provider with a list of its own has returned the provider of an enabled
\* suite, while it enables another suite that a component cannot be built for.
C19_Witness ==
    /\ last.op = "cipher_suite_provider"
    /\ last.res.obj # None
    /\ provider[1].enabled_cipher_suites # CipherSuite_all
    /\ can # Able({})
    /\ contains(provider[1].enabled_cipher_suites, MaxSuite)

====
